---- MODULE Spec2Model ----
(***************************************************************************)
(* The metric-collection extension of CVSAnalY                             *)
(* (pycvsanaly2/extensions/Metrics.py): the Driver loop of Metrics.run,    *)
(* the checkout/update retry loops, the analyzers and the batched,         *)
(* resumable persistence of the metrics table.                             *)
(*                                                                         *)
(* One step of the model is one step of Metrics.run: the setup, the svn    *)
(* initial checkouts, one iteration of the work-item loop, a commit, the   *)
(* final flush, the final commit, the clean-up.  The temporary workspace   *)
(* and the pending batch live in the process and die with it, so an        *)
(* interruption inside an iteration is indistinguishable, for the next     *)
(* run, from one just before or just after that iteration, except between  *)
(* an insert and its commit, which is a step of its own.                   *)
(***************************************************************************)
EXTENDS Integers, Sequences, FiniteSets, TLC

VARIABLES
    \* ---- the environment: history tables, backend, installed tools ----
    type,               \* repo.get_type ()
    query,              \* rows of the work-item query, in the order returned
    verify,             \* what repo.get_last_revision answers on the n-th attempt
    throw_rev,          \* the revision at which the backend call raises (0: none)
    programs,           \* the programs find_program locates
    sloccount_out,      \* what sloccount prints for a file
    mccabe_out,         \* per-function values printed by mccabe / pymetrics
    cccc_out,           \* what the cccc XML summary holds
    db,                 \* the class of self.db: "sqlite" or "mysql"
    create_fault,       \* what the CREATE TABLE statement runs into, the table aside
    repoid,             \* the id of the repositories row of the uri, None for no row
    \* ---- the database ----
    table_exists,       \* whether the metrics table exists
    table,              \* the committed rows of metrics, in insertion order
    uncommitted,        \* rows inserted by executemany and not yet committed
    \* ---- one run of Metrics.run ----
    pc,                 \* position in run
    metrics,            \* the local list of (file_id, commit_id) already measured
    self_metrics,       \* self.metrics, the pending batch
    id_counter,
    idx,                \* position in the fetched work items
    current_revision,
    tmpdir,             \* the temporary directory: "none", "made" or "removed"
    disk,               \* what the temporary workspace holds
    \* ---- a second Metrics.run on the same database, in another process ----
    peer,
    \* ---- history of the execution, read by the properties only ----
    log,                \* how each finished run ended
    base,               \* the committed rows when the current run started
    inserts,            \* sizes of the executemany calls of the current run
    measured,           \* the rows appended to self.metrics by the current run
    issued,             \* revision of the last checkout / update issued per top-level directory
    last,               \* what the last loop iteration did
    escaped             \* the exception that left the last run, "none" for none

env_vars == <<type, query, verify, throw_rev, programs, sloccount_out, mccabe_out, cccc_out,
              db, create_fault, repoid>>
db_vars == <<table_exists, table, uncommitted>>
run_vars == <<pc, metrics, self_metrics, id_counter, idx, current_revision, tmpdir, disk>>
hist_vars == <<log, base, inserts, measured, issued, last, escaped>>
vars == <<env_vars, db_vars, run_vars, peer, hist_vars>>

-----------------------------------------------------------------------------
(* Program constants *)

RETRIES == 1
MAX_METRICS == 100

\* None / NULL of a numeric field (every measured value is >= 0)
None == -1
\* current_revision = None
NoRevision == <<>>

(* Bounds of the model *)

\* longest list of catalogue work items that follows the filler work items
MaxItems == 3
\* number of runs of the extension against the same database
MaxRuns == 2
\* most functions of a file, and the largest complexity of a function
MaxUnits == 3
MaxValue == 4

-----------------------------------------------------------------------------
(* The repository history, as the history tables hold it *)

a == <<"a">>
ab == <<"a", "b">>
a_x == <<"a", "/", "x">>
a_y == <<"a", "/", "y">>
ab_z == <<"a", "b", "/", "z">>

Paths == {a, ab, a_x, a_y, ab_z}

\* the top-level directory a path lies in
TopOf(p) == IF p \in {a, a_x, a_y} THEN a ELSE ab

\* the first revision in which a path exists
Born(p) == IF p \in {a, a_x} THEN 1 ELSE 2

\* a repository path that is a directory
IsDirectory(p) == p \in {a, ab}

\* SELECT tree.file_name, tree.id, MIN(scmlog.rev) ... tree.parent = -1
topdirs == << <<a, <<1>>>>, <<ab, <<2>>>> >>

WorkItem(revision, path, commit_id, file_id, composed, deleted) ==
    [revision |-> revision, path |-> path, commit_id |-> commit_id,
     file_id |-> file_id, composed |-> composed, deleted |-> deleted]

\* Work items of the small histories: the directory a and a/x added in commit
\* 1 (revision 1), where a/y is added too but is deleted as of that revision;
\* a/x modified, a/y and ab/z added in commit 2 (revision 2).
Catalogue ==
    { WorkItem(<<2>>, a_x, 2, 1, FALSE, FALSE),
      WorkItem(<<2>>, a_y, 2, 2, FALSE, FALSE),
      WorkItem(<<2>>, ab_z, 2, 3, FALSE, FALSE),
      WorkItem(<<1>>, a_x, 1, 1, FALSE, FALSE),
      WorkItem(<<1>>, a_y, 1, 2, FALSE, TRUE),
      WorkItem(<<1>>, a, 1, 4, FALSE, FALSE) }

\* a long history of one file: revision n of a/x, commit 1000 + n
Filler(n) == WorkItem(<<1000 + n>>, a_x, 1000 + n, 1, FALSE, FALSE)

\* the n newest revisions of the long history, newest first
Fillers(n) == [i \in 1..n |-> Filler(n + 1 - i)]

\* the (file_id, commit_id) pairs of a list of work items or of rows
Pairs(rows) == {<<rows[i].file_id, rows[i].commit_id>> : i \in 1..Len(rows)}

\* ORDER BY s.date DESC: commits are dated in the order of their ids
DateDescending(q) == \A i \in 1..(Len(q) - 1) : q[i].commit_id >= q[i + 1].commit_id

RECURSIVE SeqsUpTo(_, _)
SeqsUpTo(S, n) ==
    IF n = 0 THEN {<<>>}
    ELSE LET shorter == SeqsUpTo(S, n - 1)
         IN shorter \cup {Append(q, x) : q \in {s \in shorter : Len(s) = n - 1}, x \in S}

-----------------------------------------------------------------------------
(* The workspace and the repository backend *)

Absent == [kind |-> "absent", rev |-> 0]
Directory == [kind |-> "dir", rev |-> 0]
File(r) == [kind |-> "file", rev |-> r]

\* mkdtemp (): an empty directory
EmptyDisk == [p \in Paths |-> Absent]

\* the number of a revision token
RevNum(rev) == rev[1]

\* what the repository holds at path q in revision r
RepoContent(q, r) ==
    IF r < Born(q) THEN Absent
    ELSE IF IsDirectory(q) THEN Directory ELSE File(r)

\* q is p or lies below p
Within(q, p) == q = p \/ (IsDirectory(p) /\ TopOf(q) = p)

\* repo.checkout (uri, rootdir, newdir, rev): uri and all below it, as of rev,
\* inside the directories that lead to it
RepoCheckout(d, uri, rev) ==
    [q \in Paths |->
        IF Within(q, uri) THEN RepoContent(q, RevNum(rev))
        ELSE IF q = TopOf(uri) /\ RepoContent(uri, RevNum(rev)) # Absent THEN Directory
        ELSE d[q]]

\* repo.update (uri, rev, force=True): the working copy at uri moves to rev
RepoUpdate(d, uri, rev) ==
    [q \in Paths |-> IF Within(q, uri) THEN RepoContent(q, RevNum(rev)) ELSE d[q]]

\* whether repo.checkout / repo.update raises when asked for rev
BackendRaises(rev) == RevNum(rev) = throw_rev

\* repo.get_last_revision on the n-th attempt of an operation:
\* "match" (the requested revision), "differ" (another one) or "raise"
LastRevision(n) == verify[n]

Outcome(d, calls, converged, raised) ==
    [disk |-> d, calls |-> calls, converged |-> converged, raised |-> raised]

\* a checkout loop that stops one attempt early
RECURSIVE checkout_short(_, _, _, _)
checkout_short(count, d, uri, rev) ==
    IF RETRIES - count > 0
    THEN IF BackendRaises(rev)
         THEN Outcome(d, count + 1, FALSE, TRUE)
         ELSE LET d2 == RepoCheckout(d, uri, rev)
              IN IF LastRevision(count + 1) = "match"
                 THEN Outcome(d2, count + 1, TRUE, FALSE)
                 ELSE checkout_short(count + 1, d2, uri, rev)
    ELSE Outcome(d, count, FALSE, FALSE)

\* Metrics.__checkout from the given count on
RECURSIVE checkout_from(_, _, _, _)
checkout_from(count, d, uri, rev) ==
    IF RETRIES - count >= 0
    THEN IF BackendRaises(rev)
         THEN Outcome(d, count + 1, FALSE, TRUE)
         ELSE LET d2 == RepoCheckout(d, uri, rev)
              IN IF LastRevision(count + 1) = "match"
                 THEN Outcome(d2, count + 1, TRUE, FALSE)
                 ELSE checkout_from(count + 1, d2, uri, rev)
    ELSE Outcome(d, count, FALSE, FALSE)

__checkout(d, uri, rev) == checkout_from(0, d, uri, rev)

\* Metrics.__update from the given count on
RECURSIVE update_from(_, _, _, _)
update_from(count, d, uri, rev) ==
    IF RETRIES - count >= 0
    THEN IF BackendRaises(rev)
         THEN Outcome(d, count + 1, FALSE, TRUE)
         ELSE LET d2 == RepoUpdate(d, uri, rev)
              IN IF LastRevision(count + 1) = "match"
                 THEN Outcome(d2, count + 1, TRUE, FALSE)
                 ELSE update_from(count + 1, d2, uri, rev)
    ELSE Outcome(d, count, FALSE, FALSE)

__update(d, uri, rev) == update_from(0, d, uri, rev)

-----------------------------------------------------------------------------
(* The analyzers *)

\* Measures.__init__
Measures ==
    [lang |-> "unknown", loc |-> None, sloc |-> None,
     ncomment |-> None, lcomment |-> None, lblank |-> None,
     nfunctions |-> None,
     mccabe_max |-> None, mccabe_min |-> None, mccabe_sum |-> None,
     mccabe_mean |-> None, mccabe_median |-> None,
     halstead_length |-> None, halstead_vol |-> None,
     halstead_level |-> None, halstead_md |-> None]

\* What the tools print for the content of revision r of a file
LinesOf(r) == 20 + r
SlocOf(r) == 8 + 2 * r
\* kdsi: sloc, blank lines, comment lines, number of comments, file name
KdsiOutput(r) == <<SlocOf(r), 3 + r, 5 + r, 2 + r, 0>>
\* halstead: file name, length, volume, level, mental discipline
HalsteadOutput(r) == <<0, 30 + r, 40 + r, 1, 50 + r>>
\* pymetrics: the numComments line
PymetricsComments(r) == 5 + r

Returned(v) == [tag |-> "ok", value |-> v]
Raised(e) == [tag |-> e, value |-> <<>>]

\* the _metrics table: the analyzer class of a language
_metrics(lang) ==
    CASE lang = "ansic" -> "FileMetricsC"
      [] lang = "python" -> "FileMetricsPython"
      [] lang \in {"cpp", "java"} -> "FileMetricsCCCC"
      [] OTHER -> "FileMetrics"

\* create_file_metrics: the analyzer object, or the exception of the unpacking
create_file_metrics(r) ==
    IF "sloccount" \in programs
    THEN CASE sloccount_out = "none" ->
                Returned([class |-> "FileMetrics", lang |-> "unknown", sloc |-> 0])
           [] sloccount_out = "malformed" -> Raised("ValueError")
           [] OTHER ->
                Returned([class |-> _metrics(sloccount_out), lang |-> sloccount_out,
                          sloc |-> SlocOf(r)])
    ELSE Returned([class |-> "FileMetrics", lang |-> "unknown", sloc |-> 0])

\* FileMetrics.get_LOC
get_LOC(fm, r) == Returned(LinesOf(r))

\* FileMetrics.get_SLOCLang
get_SLOCLang(fm) == Returned(<<fm.sloc, fm.lang>>)

\* XMLMetricsHandler.__init__
XMLMetricsHandler ==
    [comment_lines |-> 0, nfunctions |-> 0, mccabe_values |-> <<>>, current |-> "None"]

\* XMLMetricsHandler.startElement, value being int (attributes['value'])
startElement(h, name, value) ==
    CASE name = "project_summary" -> [h EXCEPT !.current = name]
      [] name = "lines_of_comment" /\ h.current = "project_summary" ->
            [h EXCEPT !.comment_lines = value]
      [] name = "module" ->
            [h EXCEPT !.current = name, !.nfunctions = h.nfunctions + 1]
      [] name = "McCabes_cyclomatic_complexity" /\ h.current = "module" ->
            [h EXCEPT !.mccabe_values = Append(h.mccabe_values, value)]
      [] OTHER -> h

\* XMLMetricsHandler.endElement
endElement(h, name) ==
    IF name \in {"project_summary", "module"} THEN [h EXCEPT !.current = "None"] ELSE h

\* parser.feed: the handler after the start and end tags of a document
RECURSIVE feed(_, _)
feed(h, tags) ==
    IF tags = <<>> THEN h
    ELSE feed(IF Head(tags).start
              THEN startElement(h, Head(tags).name, Head(tags).value)
              ELSE endElement(h, Head(tags).name),
              Tail(tags))

\* FileMetricsCCCC.__ensure_handler: the handler after the parse
ensure_handler ==
    IF "cccc" \in programs THEN Returned(cccc_out) ELSE Raised("ProgramNotFound")

\* get_CommentsBlank of each analyzer: (comment_number, comment_lines, blank_lines)
get_CommentsBlank(fm, r) ==
    CASE fm.class = "FileMetricsC" ->
            IF "kdsi" \in programs
            THEN LET out == KdsiOutput(r)
                 IN Returned(<<out[4], out[3], out[2]>>)
            ELSE Raised("ProgramNotFound")
      [] fm.class = "FileMetricsPython" ->
            IF "pymetrics" \in programs
            THEN Returned(<<None, PymetricsComments(r), None>>)
            ELSE Raised("ProgramNotFound")
      [] fm.class = "FileMetricsCCCC" ->
            IF ensure_handler.tag = "ok"
            THEN Returned(<<None, ensure_handler.value.comment_lines, None>>)
            ELSE ensure_handler
      [] OTHER -> Raised("NotImplementedError")

\* get_HalsteadComplexity: (length, volume, level, md)
get_HalsteadComplexity(fm, r) ==
    IF fm.class = "FileMetricsC"
    THEN IF "halstead" \in programs
         THEN LET values == HalsteadOutput(r)
              IN Returned(<<values[2], values[3], values[4], values[5]>>)
         ELSE Raised("ProgramNotFound")
    ELSE Raised("NotImplementedError")

\* list.sort (): ascending
RECURSIVE Insert(_, _)
Insert(s, v) ==
    IF s = <<>> THEN <<v>>
    ELSE IF v <= Head(s) THEN <<v>> \o s
    ELSE <<Head(s)>> \o Insert(Tail(s), v)

RECURSIVE sort(_)
sort(s) == IF s = <<>> THEN <<>> ELSE Insert(sort(Tail(s)), Head(s))

RECURSIVE sum(_)
sum(s) == IF s = <<>> THEN 0 ELSE Head(s) + sum(Tail(s))

min(s) == CHOOSE v \in {s[i] : i \in 1..Len(s)} : \A i \in 1..Len(s) : v <= s[i]
max(s) == CHOOSE v \in {s[i] : i \in 1..Len(s)} : \A i \in 1..Len(s) : v >= s[i]

\* s[i] with Python's indexing: from 0, a negative index counts from the end
At(s, i) == IF i >= 0 THEN s[i + 1] ELSE s[Len(s) + i + 1]

\* statistics whose median is taken from the list as the tool printed it
_get_mccabe_stats_unsorted(nfunctions, mccabe_values) ==
    LET mccabe_sum == sum(mccabe_values)
        mccabe_mean == mccabe_sum \div nfunctions
        n == Len(mccabe_values)
        mccabe_median ==
            IF nfunctions = 1 THEN mccabe_mean
            ELSE IF nfunctions % 2 = 1 THEN At(mccabe_values, n \div 2)
            ELSE (At(mccabe_values, n \div 2 - 1) + At(mccabe_values, n \div 2)) \div 2
    IN IF nfunctions >= 1
       THEN Returned(<<mccabe_sum, min(mccabe_values), max(mccabe_values),
                       mccabe_mean, mccabe_median>>)
       ELSE Raised("UnboundLocalError")

\* FileMetrics._get_mccabe_stats: (sum, min, max, mean, median), or the
\* UnboundLocalError of returning a name that no branch assigned
_get_mccabe_stats(nfunctions, mccabe_values) ==
    LET mccabe_sum == sum(mccabe_values)
        mccabe_mean == mccabe_sum \div nfunctions
        sorted == sort(mccabe_values)
        n == Len(mccabe_values)
        mccabe_median ==
            IF nfunctions = 1 THEN mccabe_mean
            ELSE IF nfunctions % 2 = 1 THEN At(sorted, n \div 2)
            ELSE (At(sorted, n \div 2 - 1) + At(sorted, n \div 2)) \div 2
    IN IF nfunctions >= 1
       THEN Returned(<<mccabe_sum, min(mccabe_values), max(mccabe_values),
                       mccabe_mean, mccabe_median>>)
       ELSE Raised("UnboundLocalError")

\* the tail of every get_MccabeComplexity:
\* (sum, min, max, mean, median, nfunctions)
mccabe_result(nfunctions, mccabe_values) ==
    IF mccabe_values # <<>>
    THEN LET stats == _get_mccabe_stats(nfunctions, mccabe_values)
         IN IF stats.tag = "ok"
            THEN Returned(stats.value \o <<nfunctions>>)
            ELSE stats
    ELSE Returned(<<None, None, None, None, None, None>>)

\* get_MccabeComplexity of each analyzer
get_MccabeComplexity(fm, r) ==
    CASE fm.class = "FileMetricsC" ->
            IF "mccabe" \in programs
            THEN mccabe_result(Len(mccabe_out), mccabe_out)
            ELSE Raised("ProgramNotFound")
      [] fm.class = "FileMetricsPython" ->
            IF "pymetrics" \in programs
            THEN mccabe_result(Len(mccabe_out), mccabe_out)
            ELSE Raised("ProgramNotFound")
      [] fm.class = "FileMetricsCCCC" ->
            IF ensure_handler.tag = "ok"
            THEN mccabe_result(ensure_handler.value.nfunctions,
                               ensure_handler.value.mccabe_values)
            ELSE ensure_handler
      [] OTHER -> Raised("NotImplementedError")

\* lines 680-685: the try block of LOC
measure_LOC(m, fm, r) ==
    LET loc == get_LOC(fm, r)
    IN IF loc.tag = "ok" THEN [m EXCEPT !.loc = loc.value] ELSE m

\* lines 687-694: the try block of SLOC
measure_SLOC(m, fm, r) ==
    LET sl == get_SLOCLang(fm)
    IN IF sl.tag = "ok"
       THEN [m EXCEPT !.sloc = sl.value[1], !.lang = sl.value[2]]
       ELSE m

\* lines 696-705: the try block of CommentsBlank
measure_CommentsBlank(m, fm, r) ==
    LET cb == get_CommentsBlank(fm, r)
    IN IF cb.tag = "ok"
       THEN [m EXCEPT !.ncomment = cb.value[1], !.lcomment = cb.value[2],
                      !.lblank = cb.value[3]]
       ELSE m

\* a Halstead try block whose handler starts the measures of the file afresh
measure_Halstead_afresh(m, fm, r) ==
    LET hs == get_HalsteadComplexity(fm, r)
    IN IF hs.tag = "ok"
       THEN [m EXCEPT !.halstead_length = hs.value[1], !.halstead_vol = hs.value[2],
                      !.halstead_level = hs.value[3], !.halstead_md = hs.value[4]]
       ELSE Measures

\* lines 707-717: the try block of HalsteadComplexity
measure_Halstead(m, fm, r) ==
    LET hs == get_HalsteadComplexity(fm, r)
    IN IF hs.tag = "ok"
       THEN [m EXCEPT !.halstead_length = hs.value[1], !.halstead_vol = hs.value[2],
                      !.halstead_level = hs.value[3], !.halstead_md = hs.value[4]]
       ELSE m

\* lines 719-730: the try block of MccabeComplexity
measure_Mccabe(m, fm, r) ==
    LET mc == get_MccabeComplexity(fm, r)
    IN IF mc.tag = "ok"
       THEN [m EXCEPT !.mccabe_sum = mc.value[1], !.mccabe_min = mc.value[2],
                      !.mccabe_max = mc.value[3], !.mccabe_mean = mc.value[4],
                      !.mccabe_median = mc.value[5], !.nfunctions = mc.value[6]]
       ELSE m

\* lines 678-730: the measures of a file with content r, every
\* sub-measurement in its own try block
measure(fm, r) ==
    measure_Mccabe(
        measure_Halstead(
            measure_CommentsBlank(
                measure_SLOC(measure_LOC(Measures, fm, r), fm, r), fm, r), fm, r), fm, r)

\* the tuple appended to self.metrics
Row(id, file_id, commit_id, m) ==
    [id |-> id, file_id |-> file_id, commit_id |-> commit_id,
     lang |-> m.lang, sloc |-> m.sloc, loc |-> m.loc,
     ncomment |-> m.ncomment, lcomment |-> m.lcomment, lblank |-> m.lblank,
     nfunctions |-> m.nfunctions,
     mccabe_max |-> m.mccabe_max, mccabe_min |-> m.mccabe_min,
     mccabe_sum |-> m.mccabe_sum, mccabe_mean |-> m.mccabe_mean,
     mccabe_median |-> m.mccabe_median,
     halstead_length |-> m.halstead_length, halstead_vol |-> m.halstead_vol,
     halstead_level |-> m.halstead_level, halstead_md |-> m.halstead_md]

-----------------------------------------------------------------------------
(* One iteration of the work-item loop of Metrics.run *)

\* str.startswith
StartsWith(s, prefix) ==
    Len(prefix) <= Len(s) /\ SubSeq(s, 1, Len(prefix)) = prefix

\* revision.split ("|")[0]: the tokens before the first separator (0)
RECURSIVE split_first(_)
split_first(revision) ==
    IF revision = <<>> \/ Head(revision) = 0 THEN <<>>
    ELSE <<Head(revision)>> \o split_first(Tail(revision))

\* one backend operation issued by the Driver, as the properties see it
Op(kind, uri, rev, o) ==
    [kind |-> kind, uri |-> uri, rev |-> rev, calls |-> o.calls,
     converged |-> o.converged, raised |-> o.raised]

Advanced(d, ops, raised) == [disk |-> d, ops |-> ops, raised |-> raised]

\* lines 646-655: the updates of the top-level directories, from the i-th on
RECURSIVE update_topdirs(_, _, _, _, _)
update_topdirs(i, d, relative_path, rev, ops) ==
    IF i > Len(topdirs) THEN Advanced(d, ops, FALSE)
    ELSE LET topdir == topdirs[i][1]
             first_rev == topdirs[i][2]
         IN IF relative_path = topdir /\ rev = first_rev
            THEN update_topdirs(i + 1, d, relative_path, rev, ops)
            ELSE IF ~StartsWith(relative_path, topdir)
            THEN update_topdirs(i + 1, d, relative_path, rev, ops)
            ELSE LET o == __update(d, topdir, rev)
                     ops2 == Append(ops, Op("update", topdir, rev, o))
                 IN IF o.raised THEN Advanced(o.disk, ops2, TRUE)
                    ELSE update_topdirs(i + 1, o.disk, relative_path, rev, ops2)

\* lines 644-662: bring the workspace to the revision of the work item
advance(d, relative_path, rev) ==
    IF type = "svn"
    THEN update_topdirs(1, d, relative_path, rev, <<>>)
    ELSE LET o == __checkout(d, relative_path, rev)
         IN Advanced(o.disk, <<Op("checkout", relative_path, rev, o)>>, o.raised)

Step(cur, d, outcome, ops, content, row) ==
    [current_revision |-> cur, disk |-> d, outcome |-> outcome, ops |-> ops,
     content |-> content, row |-> row]

NoRow == <<>>

\* a deletion lookup made for svn only
is_deleted_svn_only(item) == type = "svn" /\ item.deleted

\* lines 630-634: path_is_deleted_for_revision, asked unless the repository is CVS
is_deleted(item) == type # "cvs" /\ item.deleted

\* a batch that is full one row late
batch_full_late(pending) == Len(pending) > MAX_METRICS

\* line 738: the pending batch is full
batch_full(pending) == Len(pending) >= MAX_METRICS

\* a tracked revision that is left alone when the advance raised
tracked_revision_unless_raised(cur, revision, raised) ==
    IF raised THEN cur ELSE revision

\* line 664: current_revision = revision, after the try block of the advance
tracked_revision(cur, revision, raised) == revision

\* a loop body without the os.path.isdir test: what is at the path of the
\* work item reaches the analyzer unless nothing is there
body_without_isdir(cur, d, id, skip, item) ==
    IF \E k \in 1..Len(skip) : skip[k] = <<item.file_id, item.commit_id>>
    THEN Step(cur, d, "skipset", <<>>, 0, NoRow)
    ELSE
    LET rev == IF item.composed THEN split_first(item.revision) ELSE item.revision
        relative_path == item.path
    IN IF is_deleted(item)
       THEN Step(cur, d, "deleted", <<>>, 0, NoRow)
       ELSE
       LET adv == IF item.revision # cur
                  THEN advance(d, relative_path, rev)
                  ELSE Advanced(d, <<>>, FALSE)
           cur2 == tracked_revision(cur, item.revision, adv.raised)
           d2 == adv.disk
           checkout_path == d2[relative_path]
       IN IF checkout_path.kind = "absent"
          THEN Step(cur2, d2, "missing", adv.ops, 0, NoRow)
          ELSE
          LET fm == create_file_metrics(checkout_path.rev)
          IN IF fm.tag # "ok"
             THEN Step(cur2, d2, "raised", adv.ops, checkout_path.rev, NoRow)
             ELSE Step(cur2, d2, "measured", adv.ops, checkout_path.rev,
                       Row(id, item.file_id, item.commit_id,
                           measure(fm.value, checkout_path.rev)))

\* lines 619-736: the body of the loop for one work item, up to the append.
\* outcome: "skipset", "deleted", "isdir", "missing", "raised" (an exception
\* leaves run) or "measured" (row is the appended tuple)
body(cur, d, id, skip, item) ==
    IF \E k \in 1..Len(skip) : skip[k] = <<item.file_id, item.commit_id>>
    THEN Step(cur, d, "skipset", <<>>, 0, NoRow)
    ELSE
    LET rev == IF item.composed THEN split_first(item.revision) ELSE item.revision
        relative_path == item.path
    IN IF is_deleted(item)
       THEN Step(cur, d, "deleted", <<>>, 0, NoRow)
       ELSE
       LET adv == IF item.revision # cur
                  THEN advance(d, relative_path, rev)
                  ELSE Advanced(d, <<>>, FALSE)
           cur2 == tracked_revision(cur, item.revision, adv.raised)
           d2 == adv.disk
           checkout_path == d2[relative_path]
       IN IF checkout_path.kind = "dir"
          THEN Step(cur2, d2, "isdir", adv.ops, 0, NoRow)
          ELSE IF checkout_path.kind = "absent"
          THEN Step(cur2, d2, "missing", adv.ops, 0, NoRow)
          ELSE
          LET fm == create_file_metrics(checkout_path.rev)
          IN IF fm.tag # "ok"
             THEN Step(cur2, d2, "raised", adv.ops, checkout_path.rev, NoRow)
             ELSE Step(cur2, d2, "measured", adv.ops, checkout_path.rev,
                       Row(id, item.file_id, item.commit_id,
                           measure(fm.value, checkout_path.rev)))

\* an id counter that is not seeded from the table
next_id_unseeded(rows) == 1

\* SELECT max(id) from metrics, then lines 551-552
next_id(rows) ==
    IF rows = <<>> THEN 1
    ELSE 1 + max([i \in 1..Len(rows) |-> rows[i].id])

\* Metrics.__get_metrics
__get_metrics(rows) == [i \in 1..Len(rows) |-> <<rows[i].file_id, rows[i].commit_id>>]

\* initial checkouts that go on after one of them raised
RECURSIVE checkout_topdirs_lenient(_, _, _)
checkout_topdirs_lenient(i, d, ops) ==
    IF i > Len(topdirs) THEN Advanced(d, ops, FALSE)
    ELSE LET topdir == topdirs[i][1]
             first_rev == topdirs[i][2]
             o == __checkout(d, topdir, first_rev)
             ops2 == Append(ops, Op("checkout", topdir, first_rev, o))
         IN checkout_topdirs_lenient(i + 1, o.disk, ops2)

\* lines 588-600: the initial checkouts of the top-level directories
RECURSIVE checkout_topdirs(_, _, _)
checkout_topdirs(i, d, ops) ==
    IF i > Len(topdirs) THEN Advanced(d, ops, FALSE)
    ELSE LET topdir == topdirs[i][1]
             first_rev == topdirs[i][2]
             o == __checkout(d, topdir, first_rev)
             ops2 == Append(ops, Op("checkout", topdir, first_rev, o))
         IN IF o.raised THEN Advanced(o.disk, ops2, TRUE)
            ELSE checkout_topdirs(i + 1, o.disk, ops2)

\* lines 619-749 without interruption: the rows committed by the loop from
\* the i-th work item on and by the final flush
RECURSIVE run_from(_, _, _, _, _, _, _)
run_from(i, cur, d, id, skip, pending, committed) ==
    IF i > Len(query) THEN committed \o pending
    ELSE LET s == body(cur, d, id, skip, query[i])
             appended == Append(pending, s.row)
         IN CASE s.outcome = "raised" -> committed
              [] s.outcome = "measured" /\ batch_full(appended) ->
                    run_from(i + 1, s.current_revision, s.disk, id + 1, skip,
                             <<>>, committed \o appended)
              [] s.outcome = "measured" /\ ~batch_full(appended) ->
                    run_from(i + 1, s.current_revision, s.disk, id + 1, skip,
                             appended, committed)
              [] OTHER ->
                    run_from(i + 1, s.current_revision, s.disk, id, skip,
                             pending, committed)

\* Metrics.run, uninterrupted, on a database that has no metrics table yet:
\* the rows of the table afterwards
run ==
    LET first == IF type = "svn"
                 THEN checkout_topdirs(1, EmptyDisk, <<>>)
                 ELSE Advanced(EmptyDisk, <<>>, FALSE)
    IN IF first.raised THEN <<>>
       ELSE run_from(1, NoRevision, first.disk, 1, <<>>, <<>>, <<>>)

-----------------------------------------------------------------------------
(* The steps of Metrics.run *)

Running == pc \in {"topdirs", "loop", "commit", "final_commit", "cleanup"}

NoLast == [idx |-> 0, outcome |-> "none", ops |-> <<>>, content |-> 0, row |-> NoRow]

\* no checkout or update issued yet for any top-level directory
NoneIssued == [i \in 1..Len(topdirs) |-> NoRevision]

\* the revisions last issued per top-level directory, after the operations ops
RECURSIVE Issue(_, _)
Issue(iss, ops) ==
    IF ops = <<>> THEN iss
    ELSE Issue([i \in 1..Len(topdirs) |->
                   IF topdirs[i][1] = Head(ops).uri THEN Head(ops).rev ELSE iss[i]],
               Tail(ops))

\* a connection that is refused while another run is connected
connect_exclusive(other_running) == ~other_running

\* line 541: self.db.connect () succeeds whether or not another run is
\* connected to the database
connect(other_running) == TRUE

\* line 568: mkdtemp ()
mkdtemp == "made"

\* a clean-up that leaves the directory where it is
remove_directory_kept(dir) == dir

\* line 753: remove_directory (tmpdir)
remove_directory(dir) == "removed"

\* an insert that leaves out the last row of the batch
executemany_short(rows, batch) ==
    IF \E i \in 1..Len(batch) : \E j \in 1..Len(rows) : batch[i].id = rows[j].id
    THEN Raised("IntegrityError")
    ELSE Returned(rows \o SubSeq(batch, 1, Len(batch) - 1))

\* cursor.executemany of __insert__ on a table whose id is the primary key:
\* the rows afterwards, or the IntegrityError of an id the table holds
executemany(rows, batch) ==
    IF \E i \in 1..Len(batch) : \E j \in 1..Len(rows) : batch[i].id = rows[j].id
    THEN Raised("IntegrityError")
    ELSE Returned(rows \o batch)

\* Metrics.__create_table: the table created and committed, or the exception
\* raised.  The sqlite branch answers every OperationalError of the
\* statement with TableAlreadyExists; the mysql branch only the one of code
\* 1050 (table already exists); every other exception is raised again.
__create_table(exists) ==
    CASE create_fault = "other" -> Raised("DatabaseError")
      [] create_fault = "operational" ->
            IF db = "sqlite" THEN Raised("TableAlreadyExists")
            ELSE Raised("OperationalError")
      [] create_fault = "none" /\ exists -> Raised("TableAlreadyExists")
      [] OTHER -> Returned(TRUE)

Loaded(exception, exists, id, pairs) ==
    [escaped |-> exception, table_exists |-> exists, id_counter |-> id, metrics |-> pairs]

\* line 565: read_cursor.fetchone ()[0], None having no item 0
find_repository(st) ==
    IF st.escaped = "none" /\ repoid = None
    THEN [st EXCEPT !.escaped = "TypeError"]
    ELSE st

\* lines 541-565: create the table or, on TableAlreadyExists, read max(id)
\* and the measured pairs (statements that raise OperationalError when there
\* is no table); any other exception of the creation is wrapped; then find
\* the repository
setup(exists, rows) ==
    LET created == __create_table(exists)
    IN find_repository(
          CASE created.tag = "ok" -> Loaded("none", TRUE, 1, <<>>)
            [] created.tag = "TableAlreadyExists" ->
                  IF exists
                  THEN Loaded("none", TRUE, next_id(rows), __get_metrics(rows))
                  ELSE Loaded("OperationalError", FALSE, 1, <<>>)
            [] OTHER -> Loaded("ExtensionRunError", exists, 1, <<>>))

\* where run is when an exception has left it: ExtensionRunError, an
\* exception of the setup, an exception of the loop or of the final flush
Stopped == {"idle", "done", "crashed", "failed", "raised", "setup_raised"}

\* the second run before it starts
NoPeer ==
    [pc |-> "idle", metrics |-> <<>>, self_metrics |-> <<>>, id_counter |-> 1,
     idx |-> 1, current_revision |-> NoRevision, disk |-> EmptyDisk,
     base |-> <<>>, inserts |-> 0]

\* the second run is between its setup and its end
PeerRunning == peer.pc = "loop"

\* lines 539-568: connect, create the table or load max(id) and the measured
\* pairs, find the repository, make the workspace.  A run starts in a new
\* process, on a new Metrics object (self.metrics = []).
Start ==
    /\ pc \in Stopped
    /\ Len(log) < MaxRuns
    /\ connect(PeerRunning)
    /\ LET st == setup(table_exists, table)
       IN /\ table_exists' = st.table_exists
          /\ id_counter' = st.id_counter
          /\ metrics' = st.metrics
          /\ escaped' = st.escaped
          /\ tmpdir' = IF st.escaped = "none" THEN mkdtemp ELSE tmpdir
          /\ pc' = CASE st.escaped = "none" -> IF type = "svn" THEN "topdirs" ELSE "loop"
                     [] st.escaped = "ExtensionRunError" -> "failed"
                     [] OTHER -> "setup_raised"
          /\ log' = CASE st.escaped = "none" -> log
                      [] st.escaped = "ExtensionRunError" -> Append(log, "failed")
                      [] OTHER -> Append(log, "raised")
    /\ self_metrics' = <<>>
    /\ idx' = 1
    /\ current_revision' = NoRevision
    /\ disk' = EmptyDisk
    /\ base' = table
    /\ inserts' = <<>>
    /\ measured' = <<>>
    /\ issued' = NoneIssued
    /\ last' = NoLast
    /\ UNCHANGED <<env_vars, table, uncommitted, peer>>

\* lines 571-602: svn needs the first revision of every top-level directory
InitialCheckout ==
    /\ pc = "topdirs"
    /\ LET r == checkout_topdirs(1, disk, <<>>)
       IN /\ disk' = r.disk
          /\ last' = [NoLast EXCEPT !.outcome = "topdirs", !.ops = r.ops]
          /\ issued' = Issue(issued, r.ops)
          /\ pc' = IF r.raised THEN "failed" ELSE "loop"
          /\ log' = IF r.raised THEN Append(log, "failed") ELSE log
          /\ escaped' = IF r.raised THEN "ExtensionRunError" ELSE escaped
    /\ UNCHANGED <<env_vars, db_vars, metrics, self_metrics, id_counter, idx,
                   current_revision, tmpdir, peer, base, inserts, measured>>

\* lines 619-744: one iteration; when the batch is full, __insert_many runs
\* in it and the commit is the next step
Iterate ==
    /\ pc = "loop"
    /\ idx <= Len(query)
    /\ \E s \in {body(current_revision, disk, id_counter, metrics, query[idx])} :
       \E appended \in {Append(self_metrics, s.row)} :
       \E full \in {s.outcome = "measured" /\ batch_full(appended)} :
       \E inserted \in {IF full THEN executemany(table \o uncommitted, appended)
                        ELSE Returned(table \o uncommitted)} :
          /\ current_revision' = s.current_revision
          /\ disk' = s.disk
          /\ last' = [idx |-> idx, outcome |-> s.outcome, ops |-> s.ops,
                      content |-> s.content, row |-> s.row]
          /\ issued' = Issue(issued, s.ops)
          /\ measured' = IF s.outcome = "measured" THEN Append(measured, s.row) ELSE measured
          /\ idx' = idx + 1
          /\ IF s.outcome = "measured"
             THEN IF full
                  THEN IF inserted.tag = "ok"
                       THEN /\ uncommitted' = SubSeq(inserted.value, Len(table) + 1, Len(inserted.value))
                            /\ inserts' = Append(inserts, Len(appended))
                            /\ self_metrics' = <<>>
                            /\ pc' = "commit"
                            /\ UNCHANGED <<id_counter, log, escaped>>
                       ELSE /\ self_metrics' = appended
                            /\ pc' = "raised"
                            /\ log' = Append(log, "raised")
                            /\ escaped' = inserted.tag
                            /\ UNCHANGED <<uncommitted, inserts, id_counter>>
                  ELSE /\ self_metrics' = appended
                       /\ id_counter' = id_counter + 1
                       /\ UNCHANGED <<uncommitted, inserts, pc, log, escaped>>
             ELSE /\ pc' = IF s.outcome = "raised" THEN "raised" ELSE "loop"
                  /\ log' = IF s.outcome = "raised" THEN Append(log, "raised") ELSE log
                  \* line 386: the only exception of create_file_metrics
                  /\ escaped' = IF s.outcome = "raised" THEN "ValueError" ELSE escaped
                  /\ UNCHANGED <<uncommitted, inserts, self_metrics, id_counter>>
    /\ UNCHANGED <<env_vars, table_exists, table, metrics, tmpdir, peer, base>>

\* lines 741-744: cnn.commit () of a full batch, then id_counter += 1
Commit ==
    /\ pc = "commit"
    /\ table' = table \o uncommitted
    /\ uncommitted' = <<>>
    /\ id_counter' = id_counter + 1
    /\ pc' = "loop"
    /\ UNCHANGED <<env_vars, table_exists, metrics, self_metrics, idx,
                   current_revision, tmpdir, disk, peer, hist_vars>>

\* line 747: the __insert_many after the loop
FinalFlush ==
    /\ pc = "loop"
    /\ idx > Len(query)
    /\ \E inserted \in {executemany(table \o uncommitted, self_metrics)} :
          IF self_metrics = <<>>
          THEN /\ pc' = "final_commit"
               /\ UNCHANGED <<uncommitted, inserts, self_metrics, log, escaped>>
          ELSE IF inserted.tag = "ok"
          THEN /\ uncommitted' = SubSeq(inserted.value, Len(table) + 1, Len(inserted.value))
               /\ inserts' = Append(inserts, Len(self_metrics))
               /\ self_metrics' = <<>>
               /\ pc' = "final_commit"
               /\ UNCHANGED <<log, escaped>>
          ELSE /\ pc' = "raised"
               /\ log' = Append(log, "raised")
               /\ escaped' = inserted.tag
               /\ UNCHANGED <<uncommitted, inserts, self_metrics>>
    /\ UNCHANGED <<env_vars, table_exists, table, metrics, id_counter, idx,
                   current_revision, tmpdir, disk, peer, base, measured, issued, last>>

\* line 748: the commit after the loop
FinalCommit ==
    /\ pc = "final_commit"
    /\ table' = table \o uncommitted
    /\ uncommitted' = <<>>
    /\ pc' = "cleanup"
    /\ UNCHANGED <<env_vars, table_exists, metrics, self_metrics, id_counter, idx,
                   current_revision, tmpdir, disk, peer, hist_vars>>

\* lines 753-759: remove_directory (tmpdir), close the cursors and the connection
Cleanup ==
    /\ pc = "cleanup"
    /\ tmpdir' = remove_directory(tmpdir)
    /\ disk' = EmptyDisk
    /\ pc' = "done"
    /\ log' = Append(log, "done")
    /\ UNCHANGED <<env_vars, db_vars, metrics, self_metrics, id_counter, idx,
                   current_revision, peer, base, inserts, measured, issued, last, escaped>>

\* The process is interrupted: the connection is lost with what it had not
\* committed, the pending batch and the counters are lost with the process;
\* the temporary directory stays behind.
Crash ==
    /\ Running
    /\ log' = Append(log, CASE pc = "topdirs" -> "crash_setup"
                            [] pc = "loop" /\ idx <= Len(query) -> "crash_loop"
                            [] pc = "commit" -> "crash_loop"
                            [] OTHER -> "crash_final")
    /\ pc' = "crashed"
    /\ uncommitted' = <<>>
    /\ self_metrics' = <<>>
    /\ metrics' = <<>>
    /\ id_counter' = 1
    /\ idx' = 1
    /\ current_revision' = NoRevision
    /\ disk' = EmptyDisk
    /\ inserts' = <<>>
    /\ measured' = <<>>
    /\ issued' = NoneIssued
    /\ last' = NoLast
    /\ UNCHANGED <<env_vars, table_exists, table, tmpdir, peer, base, escaped>>

-----------------------------------------------------------------------------
(* A second Metrics.run on the same repository and database.  It runs in a  *)
(* process of its own, with its own Metrics object, connection and         *)
(* temporary directory.  The database serializes the writers: the second   *)
(* run inserts and commits in one step, and waits while the first run      *)
(* holds rows that it has inserted and not yet committed.                  *)

\* lines 539-602: the setup of the second run, the svn initial checkouts included
PeerStart ==
    /\ peer.pc = "idle"
    /\ connect(Running)
    /\ LET st == setup(table_exists, table)
           first == IF type = "svn"
                    THEN checkout_topdirs(1, EmptyDisk, <<>>)
                    ELSE Advanced(EmptyDisk, <<>>, FALSE)
       IN /\ peer' = [pc |-> IF st.escaped # "none" \/ first.raised THEN "failed" ELSE "loop",
                      metrics |-> st.metrics,
                      self_metrics |-> <<>>,
                      id_counter |-> st.id_counter,
                      idx |-> 1,
                      current_revision |-> NoRevision,
                      disk |-> first.disk,
                      base |-> table,
                      inserts |-> 0]
          /\ table_exists' = st.table_exists
    /\ UNCHANGED <<env_vars, table, uncommitted, run_vars, hist_vars>>

\* lines 732-744 for a run in state p on the committed rows rows, s being
\* what the body of the loop did: the run and the rows afterwards, with the
\* insert and the commit of a full batch; flush tells whether it inserts
peer_append(p, rows, s) ==
    LET appended == Append(p.self_metrics, s.row)
        moved == [p EXCEPT !.current_revision = s.current_revision,
                           !.disk = s.disk,
                           !.idx = p.idx + 1]
    IN CASE s.outcome = "measured" /\ batch_full(appended) ->
               LET inserted == executemany(rows, appended)
               IN IF inserted.tag = "ok"
                  THEN [flush |-> TRUE, rows |-> inserted.value,
                        run |-> [moved EXCEPT !.self_metrics = <<>>,
                                              !.inserts = p.inserts + 1,
                                              !.id_counter = p.id_counter + 1]]
                  ELSE [flush |-> TRUE, rows |-> rows,
                        run |-> [moved EXCEPT !.self_metrics = appended,
                                              !.pc = "raised"]]
         [] s.outcome = "measured" /\ ~batch_full(appended) ->
               [flush |-> FALSE, rows |-> rows,
                run |-> [moved EXCEPT !.self_metrics = appended,
                                      !.id_counter = p.id_counter + 1]]
         [] s.outcome = "raised" ->
               [flush |-> FALSE, rows |-> rows, run |-> [moved EXCEPT !.pc = "raised"]]
         [] OTHER ->
               [flush |-> FALSE, rows |-> rows, run |-> moved]

\* lines 619-744 for a run in state p on the committed rows rows
peer_iteration(p, rows) ==
    peer_append(p, rows,
                body(p.current_revision, p.disk, p.id_counter, p.metrics, query[p.idx]))

\* one iteration of the second run
PeerIterate ==
    /\ peer.pc = "loop"
    /\ peer.idx <= Len(query)
    /\ \E after \in {peer_iteration(peer, table)} :
          /\ after.flush => uncommitted = <<>>
          /\ peer' = after.run
          /\ table' = after.rows
    /\ UNCHANGED <<env_vars, table_exists, uncommitted, run_vars, hist_vars>>

\* lines 746-759: the final flush, the commit and the clean-up of the second run
PeerFinish ==
    /\ peer.pc = "loop"
    /\ peer.idx > Len(query)
    /\ uncommitted = <<>>
    /\ LET inserted == executemany(table, peer.self_metrics)
       IN IF peer.self_metrics = <<>>
          THEN /\ peer' = [peer EXCEPT !.pc = "done", !.disk = EmptyDisk]
               /\ UNCHANGED table
          ELSE IF inserted.tag = "ok"
          THEN /\ table' = inserted.value
               /\ peer' = [peer EXCEPT !.pc = "done", !.disk = EmptyDisk,
                                       !.self_metrics = <<>>,
                                       !.inserts = peer.inserts + 1]
          ELSE /\ peer' = [peer EXCEPT !.pc = "raised"]
               /\ UNCHANGED table
    /\ UNCHANGED <<env_vars, table_exists, uncommitted, run_vars, hist_vars>>

-----------------------------------------------------------------------------
(* The histories and environments explored *)

AllPrograms == {"sloccount", "kdsi", "halstead", "mccabe", "pymetrics", "cccc"}

Attempts == 1..(RETRIES + 1)

AlwaysMatch == [n \in Attempts |-> "match"]

NeverMatch == [n \in Attempts |-> "differ"]

\* the revision query of every attempt matches, differs or raises; all the
\* plans that match on the first attempt behave as AlwaysMatch
VerifyPlans ==
    {AlwaysMatch} \cup {v \in [Attempts -> {"match", "differ", "raise"}] : v[1] # "match"}

CccSummary(comment_lines, nfunctions, mccabe_values) ==
    [comment_lines |-> comment_lines, nfunctions |-> nfunctions,
     mccabe_values |-> mccabe_values]

\* a database whose CREATE TABLE fails only when the table is there, and
\* that holds the row of the repository
DefaultDatabase ==
    /\ db = "sqlite"
    /\ create_fault = "none"
    /\ repoid = 1

DefaultTools ==
    /\ programs = AllPrograms
    /\ sloccount_out = "ansic"
    /\ mccabe_out = <<2, 4>>
    /\ cccc_out = CccSummary(7, 2, <<2, 4>>)

\* the work-item queries of up to n catalogue items that a repository of
\* type t can have
Queries(t, n) ==
    {q \in SeqsUpTo(Catalogue, n) :
        /\ DateDescending(q)
        \* there are no moved, renamed or removed paths in CVS
        /\ t = "cvs" => \A i \in 1..Len(q) : ~q[i].deleted}

\* short histories under every kind of repository, with a backend that
\* converges at once, never converges, or raises at one revision
InitHistories ==
    /\ type \in {"svn", "cvs", "git"}
    /\ query \in Queries(type, MaxItems)
    /\ \/ verify \in {AlwaysMatch, NeverMatch} /\ throw_rev = 0
       \/ verify = AlwaysMatch /\ throw_rev \in {1, 2}
    /\ DefaultTools
    /\ DefaultDatabase

\* one work item under every answer of the revision query
InitBackends ==
    /\ type \in {"svn", "cvs", "git"}
    /\ query \in Queries(type, 1)
    /\ verify \in VerifyPlans
    /\ throw_rev = 0
    /\ DefaultTools
    /\ DefaultDatabase

\* sizes of the long histories, around the batch size
BatchSizes == {MAX_METRICS - 1, MAX_METRICS, 2 * MAX_METRICS, 2 * MAX_METRICS + 50}

\* long histories of one file, followed by two files changed in one commit
InitBatches ==
    /\ type = "cvs"
    /\ \E n \in BatchSizes :
         \E tail \in {<<>>,
                      <<WorkItem(<<2>>, a_x, 2, 1, FALSE, FALSE)>>,
                      <<WorkItem(<<2>>, a_x, 2, 1, FALSE, FALSE),
                        WorkItem(<<2>>, a_y, 2, 2, FALSE, FALSE)>>} :
            query = Fillers(n) \o tail
    /\ verify = AlwaysMatch
    /\ throw_rev = 0
    /\ DefaultTools
    /\ DefaultDatabase

\* one file under every set of installed tools and tool output
InitTools ==
    /\ type = "git"
    /\ query = <<WorkItem(<<2>>, a_x, 2, 1, FALSE, FALSE)>>
    /\ verify = AlwaysMatch
    /\ throw_rev = 0
    /\ programs \in {AllPrograms, {}} \cup {AllPrograms \ {p} : p \in AllPrograms}
    /\ sloccount_out \in {"none", "ansic", "python", "cpp", "sh", "malformed"}
    /\ mccabe_out \in {<<>>, <<4>>, <<2, 4>>, <<3, 1, 2>>}
    /\ cccc_out \in {CccSummary(7, 2, <<2, 4>>), CccSummary(0, 0, <<>>)}
    /\ DefaultDatabase

\* one file of each analyzer under every list of per-function complexities
InitAggregates ==
    /\ type = "git"
    /\ query = <<WorkItem(<<2>>, a_x, 2, 1, FALSE, FALSE)>>
    /\ verify = AlwaysMatch
    /\ throw_rev = 0
    /\ programs = AllPrograms
    /\ sloccount_out \in {"ansic", "python", "cpp"}
    /\ mccabe_out \in SeqsUpTo(0..MaxValue, MaxUnits)
    /\ cccc_out = CccSummary(7, Len(mccabe_out), mccabe_out)
    /\ DefaultDatabase

\* a Python file added in commit 1 (revision 1) and modified in commit 2
\* (revision 2), as the work-item query returns it: newest commit first
TwoCommits ==
    <<WorkItem(<<2>>, a_x, 2, 1, FALSE, FALSE), WorkItem(<<1>>, a_x, 1, 1, FALSE, FALSE)>>

\* the history of two commits under every kind of repository
InitTwoCommits ==
    /\ type \in {"svn", "cvs", "git"}
    /\ query = TwoCommits
    /\ verify = AlwaysMatch
    /\ throw_rev = 0
    /\ programs = AllPrograms
    /\ sloccount_out = "python"
    /\ mccabe_out = <<2, 4>>
    /\ cccc_out = CccSummary(7, 2, <<2, 4>>)
    /\ DefaultDatabase

\* histories for two runs at a time: short ones under every kind of
\* repository, and one that fills a batch
InitConcurrent ==
    /\ \/ type \in {"svn", "cvs", "git"} /\ query \in Queries(type, 2)
       \/ type = "cvs" /\ query = Fillers(MAX_METRICS)
    /\ verify = AlwaysMatch
    /\ throw_rev = 0
    /\ DefaultTools
    /\ DefaultDatabase

\* work items of three commits in the two top-level directories: ab/z
\* modified in commit 3 (revision 3), a/x and ab/z changed in commit 2,
\* a/x added in commit 1
SubtreeItems ==
    { WorkItem(<<3>>, ab_z, 3, 3, FALSE, FALSE),
      WorkItem(<<2>>, a_x, 2, 1, FALSE, FALSE),
      WorkItem(<<2>>, ab_z, 2, 3, FALSE, FALSE),
      WorkItem(<<1>>, a_x, 1, 1, FALSE, FALSE) }

\* svn histories of three commits, with a backend that raises at no
\* revision or at the third
InitSubtrees ==
    /\ type = "svn"
    /\ query \in {q \in SeqsUpTo(SubtreeItems, 3) :
                     DateDescending(q) /\ Cardinality(Pairs(q)) = Len(q)}
    /\ verify = AlwaysMatch
    /\ throw_rev \in {0, 3}
    /\ DefaultTools
    /\ DefaultDatabase

\* work items whose revision is composed, "2|1" being <<2, 0, 1>>: every
\* file has revision numbers of its own, and the token after the separator
\* tells the revisions of two files apart.  a/x at "2|1" in commit 3, a/y at
\* "2|2" in commit 2, a/x at "1|1" in commit 1.
ComposedItems ==
    { WorkItem(<<2, 0, 1>>, a_x, 3, 1, TRUE, FALSE),
      WorkItem(<<2, 0, 2>>, a_y, 2, 2, TRUE, FALSE),
      WorkItem(<<1, 0, 1>>, a_x, 1, 1, TRUE, FALSE) }

\* histories of composed revisions
InitComposed ==
    /\ type \in {"cvs", "git"}
    /\ query \in {q \in SeqsUpTo(ComposedItems, MaxItems) :
                     DateDescending(q) /\ Cardinality(Pairs(q)) = Len(q)}
    /\ verify = AlwaysMatch
    /\ throw_rev = 0
    /\ DefaultTools
    /\ DefaultDatabase

Open(name, value) == [start |-> TRUE, name |-> name, value |-> value]
Close(name) == [start |-> FALSE, name |-> name, value |-> None]

\* a module element of cccc.xml: with its McCabes_cyclomatic_complexity
\* child, as in procedural_summary, or without one (None), as in oo_design
\* and structural_summary
ModuleElement(v) ==
    IF v = None
    THEN <<Open("module", None), Open("name", None), Close("name"), Close("module")>>
    ELSE <<Open("module", None), Open("name", None), Close("name"),
           Open("McCabes_cyclomatic_complexity", v),
           Close("McCabes_cyclomatic_complexity"), Close("module")>>

RECURSIVE ModuleElements(_)
ModuleElements(vs) ==
    IF vs = <<>> THEN <<>> ELSE ModuleElement(Head(vs)) \o ModuleElements(Tail(vs))

\* the tags of a cccc.xml: the project summary, then the modules
CcccXml(comment_lines, vs) ==
    <<Open("CCCC_Project", None), Open("project_summary", None),
      Open("lines_of_comment", comment_lines), Close("lines_of_comment"),
      Close("project_summary")>>
    \o ModuleElements(vs) \o <<Close("CCCC_Project")>>

\* what FileMetricsCCCC reads of the handler after the parse of a document
Parsed(tags) ==
    LET h == feed(XMLMetricsHandler, tags)
    IN CccSummary(h.comment_lines, h.nfunctions, h.mccabe_values)

\* one C++ or Java file under every cccc.xml of up to MaxUnits modules
InitSummaries ==
    /\ type = "git"
    /\ query = <<WorkItem(<<2>>, a_x, 2, 1, FALSE, FALSE)>>
    /\ verify = AlwaysMatch
    /\ throw_rev = 0
    /\ programs = AllPrograms
    /\ sloccount_out \in {"cpp", "java"}
    /\ mccabe_out = <<2, 4>>
    /\ \E vs \in SeqsUpTo({None, 1, MaxValue}, MaxUnits) : cccc_out = Parsed(CcccXml(7, vs))
    /\ DefaultDatabase

\* one file under both database backends, every failure of the CREATE TABLE
\* statement, with and without the row of the repository
InitSetups ==
    /\ type \in {"svn", "git"}
    /\ query \in Queries(type, 1)
    /\ verify = AlwaysMatch
    /\ throw_rev = 0
    /\ DefaultTools
    /\ db \in {"sqlite", "mysql"}
    /\ create_fault \in {"none", "operational", "other"}
    /\ repoid \in {None, 1}

\* a new database, no run started yet
InitRun ==
    /\ table_exists = FALSE
    /\ table = <<>>
    /\ uncommitted = <<>>
    /\ pc = "idle"
    /\ metrics = <<>>
    /\ self_metrics = <<>>
    /\ id_counter = 1
    /\ idx = 1
    /\ current_revision = NoRevision
    /\ tmpdir = "none"
    /\ disk = EmptyDisk
    /\ peer = NoPeer
    /\ log = <<>>
    /\ base = <<>>
    /\ inserts = <<>>
    /\ measured = <<>>
    /\ issued = NoneIssued
    /\ last = NoLast
    /\ escaped = "none"

Init ==
    /\ \/ InitHistories
       \/ InitBackends
       \/ InitBatches
       \/ InitTools
       \/ InitAggregates
       \/ InitTwoCommits
       \/ InitSubtrees
       \/ InitSetups
       \/ InitComposed
       \/ InitSummaries
    /\ InitRun

Next ==
    \/ Start
    \/ InitialCheckout
    \/ Iterate
    \/ Commit
    \/ FinalFlush
    \/ FinalCommit
    \/ Cleanup
    \/ Crash

Spec == Init /\ [][Next]_vars

\* two runs at a time, neither of them interrupted
ConcurrentInit == InitConcurrent /\ InitRun

ConcurrentNext ==
    \/ Start
    \/ InitialCheckout
    \/ Iterate
    \/ Commit
    \/ FinalFlush
    \/ FinalCommit
    \/ Cleanup
    \/ PeerStart
    \/ PeerIterate
    \/ PeerFinish

ConcurrentSpec == ConcurrentInit /\ [][ConcurrentNext]_vars

-----------------------------------------------------------------------------
(* Properties *)

\* the rows the table holds that it did not hold when the current run started
Added == SubSeq(table, Len(base) + 1, Len(table))

\* the rows appended by the current run, in the order of the appends
Appended == Added \o uncommitted \o self_metrics

\* the run before the current one completed normally
AfterCompletedRun == Len(log) >= 2 /\ log[Len(log) - 1] = "done"

\* the run before the current one was interrupted inside the loop
AfterInterruptedLoop == Len(log) >= 2 /\ log[Len(log) - 1] = "crash_loop"

\* the model agrees with itself: the steps of a first, uninterrupted run
\* commit the rows that run computes
StepsAgreeWithRun == (pc = "done" /\ log = <<"done">>) => table = run

\* C1: a run that completes normally right after a run that completed normally
\* leaves the metrics table as it found it (same rows, same field values).
C1_IdempotentResume ==
    (pc = "done" /\ AfterCompletedRun) => table = base

\* C2: the committed rows, the inserted rows and the pending batch hold at
\* most one row per (file_id, commit_id) pair, in every reachable state.
C2_OneRowPerPair ==
    LET rows == table \o uncommitted \o self_metrics
    IN Cardinality(Pairs(rows)) = Len(rows)

\* the work-item query returns no (file_id, commit_id) pair twice
DistinctQuery == Cardinality(Pairs(query)) = Len(query)

\* C2, for the histories whose query returns every pair once
C2_OneRowPerPairOfDistinctQuery == DistinctQuery => C2_OneRowPerPair

\* every run so far but the current one was interrupted inside the loop
OnlyInterruptedBefore ==
    /\ Len(log) >= 2
    /\ \A i \in 1..(Len(log) - 1) : log[i] = "crash_loop"

\* C3: the rows committed before an interruption of the loop stay in the
\* table; the next run measures no pair of a committed row again; when it
\* completes, the pairs of the table are those that one uninterrupted run
\* persists: every work item whose row the interruption left uncommitted
\* has been measured again, and no other.
C3_CrashResume ==
    /\ SubSeq(table, 1, Len(base)) = base
    /\ (AfterInterruptedLoop /\ last.outcome = "measured")
          => <<last.row.file_id, last.row.commit_id>> \notin Pairs(base)
    /\ (pc = "done" /\ OnlyInterruptedBefore) => Pairs(table) = Pairs(run)

\* the largest id of a list of rows, 0 for none
LargestId(rows) ==
    IF rows = <<>> THEN 0
    ELSE CHOOSE m \in {rows[i].id : i \in 1..Len(rows)} :
            \A i \in 1..Len(rows) : rows[i].id <= m

\* C4: the k-th row appended by a run has id max(id) + k, max(id) being that
\* of the table the run found (0 for a new or empty table); hence ids go up
\* by one inside a run, and the ids of the rows of the table, of the inserted
\* rows and of the pending batch strictly increase in insertion order.
C4_RowIds ==
    /\ LET found == LargestId(base)
       IN \A k \in 1..Len(Appended) : Appended[k].id = found + k
    /\ LET rows == table \o uncommitted \o self_metrics
       IN \A i \in 1..(Len(rows) - 1) : rows[i].id < rows[i + 1].id

\* C4 happens: a run that follows an interrupted one has added rows to a
\* table that held rows
C4_Witness ==
    /\ \E i \in 1..Len(log) : log[i] \in {"crash_loop", "crash_final"}
    /\ base # <<>>
    /\ Added # <<>>

RECURSIVE Total(_)
Total(s) == IF s = <<>> THEN 0 ELSE Head(s) + Total(Tail(s))

\* C5: between two iterations the pending batch holds fewer than MAX_METRICS
\* rows and is empty after a flush; every insert of the loop has exactly
\* MAX_METRICS rows and the final one at most as many, none is empty; once
\* the final flush is done the inserts are ceil(N / MAX_METRICS) for the N
\* rows of the run; 250 rows are inserted as 100, 100, 50.
C5_BatchFlush ==
    LET n == Len(Added \o uncommitted)
        flushed == pc \in {"final_commit", "cleanup", "done"}
    IN /\ Len(self_metrics) < MAX_METRICS
       /\ pc \in {"commit", "final_commit"} => self_metrics = <<>>
       /\ \A i \in 1..Len(inserts) :
             /\ inserts[i] >= 1
             /\ inserts[i] <= MAX_METRICS
             /\ (i < Len(inserts) \/ ~flushed) => inserts[i] = MAX_METRICS
       /\ Running \/ pc = "done" => Total(inserts) = n
       /\ flushed => Len(inserts) = (n + MAX_METRICS - 1) \div MAX_METRICS
       /\ (flushed /\ n = 250) => inserts = <<100, 100, 50>>

\* C5 happens: a completed run of 250 rows
C5_Witness == pc = "done" /\ inserts = <<100, 100, 50>>

\* the first attempt on which the revision query answers the requested revision
FirstMatch ==
    IF \E n \in Attempts : verify[n] = "match"
    THEN CHOOSE n \in Attempts :
            verify[n] = "match" /\ \A m \in 1..(n - 1) : verify[m] # "match"
    ELSE 0

\* C6: a checkout or an update whose backend call does not raise makes as
\* many backend calls as there are attempts up to the first one whose
\* revision query answers the requested revision, and RETRIES + 1 calls
\* when no attempt does (the query differs or raises); it then returns,
\* without raising.
C6_RetryBound ==
    \A i \in 1..Len(last.ops) :
       LET op == last.ops[i]
       IN ~op.raised =>
             /\ op.calls <= RETRIES + 1
             /\ FirstMatch # 0 => (op.calls = FirstMatch /\ op.converged)
             /\ FirstMatch = 0 => (op.calls = RETRIES + 1 /\ ~op.converged)

\* C6 happens: an update gave up after RETRIES + 1 calls, an attempt having
\* raised in the revision query
C6_Witness ==
    /\ \E n \in Attempts : verify[n] = "raise"
    /\ \E i \in 1..Len(last.ops) :
          /\ last.ops[i].kind = "update"
          /\ last.ops[i].calls = RETRIES + 1
          /\ ~last.ops[i].converged

\* a checkout or update of the last iteration used up its attempts
Exhausted ==
    \E i \in 1..Len(last.ops) : ~last.ops[i].converged /\ ~last.ops[i].raised

\* C7: a work item whose checkout or update used up its attempts is not
\* analysed and gets no row.
C7_ExhaustedIsUnmeasurable ==
    (last.idx > 0 /\ Exhausted) => last.outcome \notin {"measured", "raised"}

\* C8: the iteration of a work item whose path is deleted as of its revision
\* issues no checkout and no update, analyses nothing, and leaves the pending
\* batch, the id counter, the current revision and the workspace as they were.
C8_SkipOnDelete ==
    [][(pc = "loop" /\ idx <= Len(query) /\ query[idx].deleted /\ idx' = idx + 1)
          => /\ last'.ops = <<>>
             /\ last'.outcome \in {"skipset", "deleted"}
             /\ UNCHANGED <<self_metrics, id_counter, current_revision, disk,
                            db_vars, inserts>>]_vars

\* C8 happens: a work item was skipped as deleted after another was measured
C8_Witness ==
    /\ last.outcome = "deleted"
    /\ self_metrics # <<>>
    /\ current_revision # NoRevision

\* the sub-operations that look for a tool of their own
ToolOperations == {"CommentsBlank", "Halstead", "Mccabe"}

\* what a sub-operation of the analyzer of the last measured file answers
Answer(operation) ==
    LET fm == create_file_metrics(last.content).value
    IN CASE operation = "CommentsBlank" -> get_CommentsBlank(fm, last.content)
         [] operation = "Halstead" -> get_HalsteadComplexity(fm, last.content)
         [] operation = "Mccabe" -> get_MccabeComplexity(fm, last.content)

\* the fields of the appended row that a sub-operation fills
Fields(operation) ==
    CASE operation = "CommentsBlank" ->
            <<last.row.ncomment, last.row.lcomment, last.row.lblank>>
      [] operation = "Halstead" ->
            <<last.row.halstead_length, last.row.halstead_vol,
              last.row.halstead_level, last.row.halstead_md>>
      [] operation = "Mccabe" ->
            <<last.row.mccabe_sum, last.row.mccabe_min, last.row.mccabe_max,
              last.row.mccabe_mean, last.row.mccabe_median, last.row.nfunctions>>

\* exactly this sub-operation signals that its tool is not available
OnlyMissing(operation) ==
    /\ Answer(operation).tag = "ProgramNotFound"
    /\ \A other \in ToolOperations \ {operation} : Answer(other).tag = "ok"

\* C9: when exactly one of the three sub-operations signals that its tool is
\* not available, the fields of that sub-operation are unset in the appended
\* row and the fields of every other sub-operation hold what it returned.
C9_ToolMissingDegradation ==
    last.outcome = "measured" =>
       \A operation \in ToolOperations :
          OnlyMissing(operation) =>
             /\ \A k \in 1..Len(Fields(operation)) : Fields(operation)[k] = None
             /\ \A other \in ToolOperations \ {operation} :
                   Fields(other) = Answer(other).value
             /\ last.row.loc = LinesOf(last.content)
             /\ last.row.sloc = SlocOf(last.content)

\* C9 happens: a C file was measured without the halstead tool, the tools
\* run before and after it being there
C9_Witness ==
    /\ last.outcome = "measured"
    /\ OnlyMissing("Halstead")
    /\ last.row.lblank # None
    /\ last.row.mccabe_sum # None

\* C10: the row of a file measured while sloccount cannot be located has no
\* sloc (NULL, not 0).
C10_SlocUnsetWithoutSloccount ==
    (last.outcome = "measured" /\ "sloccount" \notin programs) => last.row.sloc = None

\* the work item of the last iteration
LastItem == query[last.idx]

\* the last iteration found a regular file at the path of its work item
FoundFile == last.idx > 0 /\ last.content # 0

\* C11: no failure while one file is analysed ends the run; an iteration
\* that finds a regular file at the path of its work item appends one row
\* with the file_id and commit_id of the item, and the loop goes on.
C11_FailureIsolation ==
    /\ pc # "raised"
    /\ FoundFile =>
          /\ last.outcome = "measured"
          /\ last.row.file_id = LastItem.file_id
          /\ last.row.commit_id = LastItem.commit_id

\* C11, as long as every top_dir line of sloccount has its four fields
C11_FailureIsolationOfWellFormedSloccount ==
    sloccount_out # "malformed" => C11_FailureIsolation

\* the per-function complexities that the analyzer of the last file read
Units ==
    IF last.row.lang \in {"cpp", "java"} THEN cccc_out.mccabe_values ELSE mccabe_out

\* the number of functions that the analyzer of the last file counted
UnitCount ==
    IF last.row.lang \in {"cpp", "java"} THEN cccc_out.nfunctions ELSE Len(mccabe_out)

\* the k-th smallest of a list of values
Kth(values, k) ==
    CHOOSE v \in {values[i] : i \in 1..Len(values)} :
        /\ Cardinality({i \in 1..Len(values) : values[i] < v}) < k
        /\ k <= Cardinality({i \in 1..Len(values) : values[i] <= v})

\* the median of a non-empty list of values
Median(values) ==
    LET n == Len(values)
    IN IF n % 2 = 1 THEN Kth(values, (n + 1) \div 2)
       ELSE (Kth(values, n \div 2) + Kth(values, n \div 2 + 1)) \div 2

\* C12: the row of a file whose McCabe sub-operation returned carries, for a
\* non-empty list of per-function values counted by its length, their sum,
\* least and greatest value, truncated mean and median ([4]: mean and median
\* 4; [2,4]: mean 3, median 3; [1,2,3]: median 2); for no function at all,
\* under every analyzer, the five statistics are unset.
C12_AggregatorCorrectness ==
    (last.outcome = "measured" /\ Answer("Mccabe").tag = "ok" /\ UnitCount = Len(Units)) =>
       LET row == last.row
       IN IF Units # <<>>
          THEN /\ row.mccabe_sum = Total(Units)
               /\ \A i \in 1..Len(Units) : row.mccabe_min <= Units[i] /\ Units[i] <= row.mccabe_max
               /\ \E i \in 1..Len(Units) : row.mccabe_min = Units[i]
               /\ \E i \in 1..Len(Units) : row.mccabe_max = Units[i]
               /\ row.mccabe_mean = Total(Units) \div Len(Units)
               /\ row.mccabe_median = Median(Units)
               /\ Units = <<4>> => (row.mccabe_mean = 4 /\ row.mccabe_median = 4)
               /\ Units = <<2, 4>> => (row.mccabe_mean = 3 /\ row.mccabe_median = 3)
               /\ Units = <<1, 2, 3>> => row.mccabe_median = 2
          ELSE /\ row.mccabe_sum = None
               /\ row.mccabe_min = None
               /\ row.mccabe_max = None
               /\ row.mccabe_mean = None
               /\ row.mccabe_median = None

\* C12 happens: the statistics of three functions printed out of order
C12_Witness ==
    /\ last.outcome = "measured"
    /\ Answer("Mccabe").tag = "ok"
    /\ Units = <<3, 1, 2>>
    /\ last.row.mccabe_median = 2
    /\ last.row.mccabe_sum = 6

\* the backend raises at the first revision of a top-level directory
InitialCheckoutThrows ==
    type = "svn" /\ \E i \in 1..Len(topdirs) : BackendRaises(topdirs[i][2])

\* C13: when the initial checkout of a top-level directory of an svn
\* repository raises, the run ends with ExtensionRunError before its loop
\* starts: no work item is processed, nothing is inserted or committed, and
\* the table holds the rows it held before the run.
C13_FatalSetup ==
    /\ InitialCheckoutThrows =>
          pc \in {"idle", "topdirs", "failed", "crashed"}
    /\ (last.outcome = "topdirs" /\ \E i \in 1..Len(last.ops) : last.ops[i].raised) =>
          pc = "failed"
    /\ pc = "failed" =>
          /\ table = base
          /\ uncommitted = <<>>
          /\ self_metrics = <<>>
          /\ inserts = <<>>
          /\ idx = 1
          /\ log[Len(log)] = "failed"

\* C13 happens: the checkout of the second top-level directory raised after
\* that of the first was done
C13_Witness ==
    /\ pc = "failed"
    /\ query # <<>>
    /\ Len(last.ops) = 2
    /\ ~last.ops[1].raised
    /\ last.ops[2].raised

\* C14: when a run has completed normally its temporary directory has been
\* removed; the directory is there as long as the run is between its setup
\* and its clean-up; the step that removes it comes after the last work
\* item, the final flush and the final commit.
C14_WorkspaceLifecycle ==
    /\ [](pc = "done" => tmpdir = "removed")
    /\ [](Running => tmpdir = "made")
    /\ [][(tmpdir # "removed" /\ tmpdir' = "removed") =>
             /\ pc = "cleanup"
             /\ pc' = "done"
             /\ idx > Len(query)
             /\ self_metrics = <<>>
             /\ uncommitted = <<>>
             /\ Len(table) = Len(base) + Total(inserts)]_vars

\* C14 happens: a run that persisted rows has completed and removed its
\* directory
C14_Witness ==
    /\ pc = "done"
    /\ tmpdir = "removed"
    /\ Added # <<>>

\* one run on a new table has completed for the Python file of two commits
TwoCommitsDone ==
    /\ query = TwoCommits
    /\ sloccount_out = "python"
    /\ pc = "done"
    /\ log = <<"done">>

\* C15: for the file added in revision 1 (sloc 10) and modified in revision
\* 2 (sloc 12), one run on a new table persists two rows of the same
\* file_id whose sloc, by increasing id, is 10 then 12.
C15_EndToEnd ==
    TwoCommitsDone =>
       /\ Len(table) = 2
       /\ table[1].file_id = table[2].file_id
       /\ table[1].id < table[2].id
       /\ table[1].sloc = 10
       /\ table[2].sloc = 12

\* what the run persists for that history: the newest commit first
C15_EndToEndNewestFirst ==
    TwoCommitsDone =>
       /\ Len(table) = 2
       /\ table[1].file_id = table[2].file_id
       /\ <<table[1].id, table[1].commit_id, table[1].sloc>> = <<1, 2, 12>>
       /\ <<table[2].id, table[2].commit_id, table[2].sloc>> = <<2, 1, 10>>

\* the two runs are in their loops, loaded from the same committed rows, and
\* neither has flushed a batch yet
SideBySide ==
    /\ pc = "loop"
    /\ PeerRunning
    /\ base = peer.base
    /\ inserts = <<>>
    /\ peer.inserts = 0

\* C16: nothing keeps a run from starting while another one is running on
\* the same database; two runs that found the same committed rows have
\* loaded the same skip-set and the same next id, and as long as neither has
\* flushed, the k-th row that one appended is the k-th row of the other:
\* same (file_id, commit_id), same id.
C16_NoMutualExclusion ==
    /\ (Running /\ peer.pc = "idle") => ENABLED PeerStart
    /\ (PeerRunning /\ pc \in {"idle", "done"} /\ Len(log) < MaxRuns) => ENABLED Start
    /\ SideBySide =>
          /\ metrics = peer.metrics
          /\ id_counter - Len(self_metrics) = peer.id_counter - Len(peer.self_metrics)
          /\ \A k \in 1..Len(self_metrics) :
                k <= Len(peer.self_metrics) => self_metrics[k] = peer.self_metrics[k]

\* C16 happens: the pending batches of the two runs hold a row for the same
\* pair under the same id
C16_Witness ==
    /\ pc = "loop"
    /\ PeerRunning
    /\ \E i \in 1..Len(self_metrics) : \E j \in 1..Len(peer.self_metrics) :
          /\ self_metrics[i].file_id = peer.self_metrics[j].file_id
          /\ self_metrics[i].commit_id = peer.self_metrics[j].commit_id
          /\ self_metrics[i].id = peer.self_metrics[j].id

\* the revision at which a work item is brought into the workspace
ItemRev(item) ==
    IF item.composed THEN split_first(item.revision) ELSE item.revision

\* the last iteration went past the skip-set and the deletion lookup
Processed == last.idx > 0 /\ last.outcome \notin {"skipset", "deleted"}

\* the last iteration issued a checkout of the path of its work item at the
\* revision of the item
CheckedOutOwnRevision ==
    \E i \in 1..Len(last.ops) :
       /\ last.ops[i].kind = "checkout"
       /\ last.ops[i].uri = LastItem.path
       /\ last.ops[i].rev = ItemRev(LastItem)

\* C17: when the repository is not svn, every iteration that is not skipped
\* by the skip-set or by deletion issues a checkout of the path of its work
\* item at the revision of the item before it looks for the file, also when
\* the work item before it had the same revision and another path (the
\* query returning no work item twice).
C17_CheckoutPerItem ==
    (type # "svn" /\ DistinctQuery /\ Processed) => CheckedOutOwnRevision

\* what the loop does when the repository is not svn: a checkout for the
\* work items whose revision differs from the tracked one, none for the others
C17_CheckoutPerRevisionChange ==
    [][(pc = "loop" /\ idx <= Len(query) /\ idx' = idx + 1 /\ type # "svn"
          /\ last'.outcome \notin {"skipset", "deleted"})
          => IF query[idx].revision # current_revision
             THEN /\ Len(last'.ops) = 1
                  /\ last'.ops[1].kind = "checkout"
                  /\ last'.ops[1].uri = query[idx].path
                  /\ last'.ops[1].rev = ItemRev(query[idx])
             ELSE last'.ops = <<>>]_vars

\* the place among topdirs of the top-level directory that holds a path
TopIndex(p) == CHOOSE i \in 1..Len(topdirs) : topdirs[i][1] = TopOf(p)

\* C18: when a file of an svn repository reaches the analyzer, the last
\* checkout or update issued for the top-level directory that holds it was
\* one to the revision of its work item, also when the work item before it
\* had the same revision and lay in another top-level directory.
C18_SubtreeAtItemRevision ==
    (type = "svn" /\ last.idx > 0 /\ last.outcome \in {"measured", "raised"}) =>
       issued[TopIndex(LastItem.path)] = ItemRev(LastItem)

\* an iteration on an svn repository that goes past the skip-set and the
\* deletion lookup, for a work item whose revision is not the tracked one,
\* with a backend that does not raise
SvnRevisionChange ==
    /\ pc = "loop"
    /\ idx <= Len(query)
    /\ idx' = idx + 1
    /\ type = "svn"
    /\ throw_rev = 0
    /\ last'.outcome \notin {"skipset", "deleted"}
    /\ query[idx].revision # current_revision

\* the iteration issues an update of the i-th top-level directory to the
\* revision of its work item
UpdatesTopdir(i) ==
    \E k \in 1..Len(last'.ops) :
       /\ last'.ops[k].kind = "update"
       /\ last'.ops[k].uri = topdirs[i][1]
       /\ last'.ops[k].rev = ItemRev(query[idx])

\* C19: when the revision changes to R on an svn repository, an update to R
\* is issued for exactly the top-level directories whose name is a prefix of
\* the path and whose initial checkout was not at R, whatever the path
\* inside the directory.
C19_UpdatePrefixedSubtrees ==
    [][SvnRevisionChange =>
          \A i \in 1..Len(topdirs) :
             UpdatesTopdir(i) <=>
                /\ StartsWith(query[idx].path, topdirs[i][1])
                /\ topdirs[i][2] # ItemRev(query[idx])]_vars

\* what the loop does: the update is left out only when the path is the
\* top-level directory itself, at the revision of its initial checkout
C19_UpdateUnlessSubtreeRootAtFirstRevision ==
    [][SvnRevisionChange =>
          \A i \in 1..Len(topdirs) :
             UpdatesTopdir(i) <=>
                /\ StartsWith(query[idx].path, topdirs[i][1])
                /\ ~(query[idx].path = topdirs[i][1]
                       /\ topdirs[i][2] = ItemRev(query[idx]))]_vars

\* an iteration in which a checkout or an update of the backend raises
AdvanceRaises ==
    /\ pc = "loop"
    /\ idx <= Len(query)
    /\ idx' = idx + 1
    /\ \E k \in 1..Len(last'.ops) : last'.ops[k].raised

\* an iteration that goes past the skip-set and the deletion lookup for a
\* work item of the tracked revision
SameRevision ==
    /\ pc = "loop"
    /\ idx <= Len(query)
    /\ idx' = idx + 1
    /\ last'.outcome \notin {"skipset", "deleted"}
    /\ query[idx].revision = current_revision

\* C20: an exception of the backend's checkout or update inside the loop
\* does not end the run: the tracked revision becomes that of the work
\* item, the item gets a row exactly when a regular file is at its path,
\* the loop goes on; a later work item of that revision issues no checkout
\* or update.
C20_AdvanceExceptionNotFatal ==
    /\ [][AdvanceRaises =>
             /\ current_revision' = query[idx].revision
             /\ pc' \in {"loop", "commit"}
             /\ last'.outcome \in {"measured", "missing", "isdir"}
             /\ last'.outcome = "measured" <=> disk'[query[idx].path].kind = "file"
             /\ last'.outcome = "measured" =>
                   Len(uncommitted' \o self_metrics') = Len(uncommitted \o self_metrics) + 1
             /\ last'.outcome # "measured" =>
                   UNCHANGED <<uncommitted, self_metrics, id_counter>>]_vars
    /\ [][SameRevision => last'.ops = <<>>]_vars

\* C20 happens: the checkout raised and the file left by an earlier revision
\* was measured
C20_Witness ==
    /\ pc = "loop"
    /\ last.outcome = "measured"
    /\ \E k \in 1..Len(last.ops) : last.ops[k].raised
    /\ current_revision = LastItem.revision
    /\ last.content # RevNum(LastItem.revision)

\* an iteration of the loop of the first run
Iteration == pc = "loop" /\ idx <= Len(query) /\ idx' = idx + 1

\* an iteration that goes past the skip-set and the deletion lookup and then
\* finds a directory or nothing at the path of its work item
Unmaterialized ==
    /\ Iteration
    /\ \A k \in 1..Len(metrics) : metrics[k] # <<query[idx].file_id, query[idx].commit_id>>
    /\ ~is_deleted(query[idx])
    /\ disk'[query[idx].path].kind \in {"dir", "absent"}

\* C21: an iteration that finds a directory or nothing at the path of its
\* work item runs no analyzer and appends no row; the pending batch, the id
\* counter and the database are as before and the loop goes on; hence the
\* ids of the rows that one run appends go up by one from row to row.
C21_SkipUnmaterialized ==
    /\ [][Unmaterialized =>
             /\ last'.outcome \in {"isdir", "missing"}
             /\ last'.outcome = "isdir" <=> disk'[query[idx].path].kind = "dir"
             /\ last'.content = 0
             /\ last'.row = NoRow
             /\ pc' = "loop"
             /\ UNCHANGED <<self_metrics, id_counter, db_vars, inserts>>]_vars
    /\ [](\A k \in 1..(Len(Appended) - 1) : Appended[k + 1].id = Appended[k].id + 1)

\* C21 happens: a directory was skipped between two measured files, whose
\* rows have ids that follow each other
C21_Witness ==
    /\ pc = "loop"
    /\ Len(query) = 3
    /\ IsDirectory(query[2].path)
    /\ last.idx = 3
    /\ last.outcome = "measured"
    /\ Len(self_metrics) = 2
    /\ self_metrics[1].commit_id = query[1].commit_id
    /\ self_metrics[2].commit_id = query[3].commit_id
    /\ self_metrics[2].id = self_metrics[1].id + 1

\* C22: when a run has completed normally (its final commit is done), the
\* pending batch is empty, nothing inserted is left uncommitted, and the
\* table holds the rows it held when the run started followed by the rows
\* the run appended, each of them once.
C22_AllRowsCommitted ==
    pc \in {"cleanup", "done"} =>
       /\ self_metrics = <<>>
       /\ uncommitted = <<>>
       /\ table = base \o measured
       /\ Total(inserts) = Len(measured)

\* C22 happens: a run that found rows in the table has completed after a
\* flush inside its loop and a final flush of the rest
C22_Witness ==
    /\ pc = "done"
    /\ base # <<>>
    /\ Len(inserts) = 2
    /\ Len(measured) > MAX_METRICS

\* C23: whatever ends a run, other than its normal completion, reaches the
\* caller as ExtensionRunError: a failure of the table creation other than
\* "already exists", a missing row of the repository, a failure of an
\* initial checkout, a failure of an insert; no exception of another type
\* leaves run.
C23_ErrorPropagation ==
    /\ escaped \in {"none", "ExtensionRunError"}
    /\ pc \in {"failed", "raised", "setup_raised"} => escaped = "ExtensionRunError"

\* what run wraps: the exceptions of __create_table other than
\* TableAlreadyExists and those of the initial checkouts; the others leave
\* it as they are
C23_WrappedSetupFailures ==
    /\ pc = "failed" <=> escaped = "ExtensionRunError"
    /\ pc = "setup_raised" <=> escaped \in {"TypeError", "OperationalError"}
    /\ pc = "raised" <=> escaped \in {"ValueError", "IntegrityError"}
    /\ escaped = "TypeError" => repoid = None
    /\ escaped = "OperationalError" => (db = "sqlite" /\ create_fault = "operational")

\* the step that sets a run up
Setup == pc \in Stopped /\ (log' # log \/ pc' \in {"topdirs", "loop"})

\* C24: when the metrics table exists, the creation signals
\* TableAlreadyExists and the run loads max(id) + 1 and the measured pairs
\* and leaves the rows as they are; TableAlreadyExists is signalled only
\* when the table exists; a creation that fails for another reason ends the
\* run with ExtensionRunError, under sqlite and under mysql.
C24_ResumeMode ==
    [][Setup =>
          /\ (table_exists /\ create_fault = "none") =>
                /\ __create_table(table_exists).tag = "TableAlreadyExists"
                /\ id_counter' = next_id(table)
                /\ metrics' = __get_metrics(table)
                /\ table' = table
                /\ escaped' \in {"none", "TypeError"}
          /\ __create_table(table_exists).tag = "TableAlreadyExists" => table_exists
          /\ create_fault # "none" => (escaped' = "ExtensionRunError" /\ pc' = "failed")]_vars

\* C24 under mysql, where only the error of code 1050 is taken for an
\* existing table
C24_ResumeModeOnMysql ==
    [][(Setup /\ db = "mysql") =>
          /\ (table_exists /\ create_fault = "none") =>
                /\ __create_table(table_exists).tag = "TableAlreadyExists"
                /\ id_counter' = next_id(table)
                /\ metrics' = __get_metrics(table)
                /\ table' = table
                /\ escaped' \in {"none", "TypeError"}
          /\ __create_table(table_exists).tag = "TableAlreadyExists" => table_exists
          /\ create_fault # "none" => (escaped' = "ExtensionRunError" /\ pc' = "failed")]_vars

\* the place of the first separator of a revision, 0 for none
FirstSeparator(revision) ==
    IF \E k \in 1..Len(revision) : revision[k] = 0
    THEN CHOOSE k \in 1..Len(revision) :
            revision[k] = 0 /\ \A j \in 1..(k - 1) : revision[j] # 0
    ELSE 0

\* the component of a revision before its first separator
Leading(revision) ==
    IF FirstSeparator(revision) = 0 THEN revision
    ELSE SubSeq(revision, 1, FirstSeparator(revision) - 1)

\* the revision that the claims expect the backend to be asked for
Resolved(item) == IF item.composed THEN Leading(item.revision) ELSE item.revision

\* the work item before the one at idx went past the skip-set and the
\* deletion lookup
FollowsProcessed == idx > 1 /\ last.idx = idx - 1 /\ Processed

\* C25: every checkout or update issued for a work item asks for the
\* component of its revision before the first separator when the item is
\* composed, and for its whole revision when it is not; a work item that
\* follows one with the same leading component issues no checkout or update.
C25_ComposedRevisions ==
    [][Iteration =>
          /\ \A k \in 1..Len(last'.ops) : last'.ops[k].rev = Resolved(query[idx])
          /\ (FollowsProcessed
                /\ Resolved(query[idx - 1]) = Resolved(query[idx])) => last'.ops = <<>>]_vars

\* what the loop does: the revisions it compares are the whole strings, so
\* only a work item that follows one of the same string issues nothing
C25_ComposedRevisionsByWholeString ==
    [][Iteration =>
          /\ \A k \in 1..Len(last'.ops) : last'.ops[k].rev = Resolved(query[idx])
          /\ (FollowsProcessed
                /\ query[idx - 1].revision = query[idx].revision) => last'.ops = <<>>]_vars

\* path p is the directory t or lies below it
Inside(p, t) == p = t \/ StartsWith(p, t \o <<"/">>)

\* C26: on an svn repository an iteration updates a top-level directory
\* only when the path of its work item is that directory or lies below it;
\* a path in another top-level directory whose name begins with the name of
\* the directory does not have the directory updated.
C26_UpdateOnlyEnclosingSubtree ==
    [][(Iteration /\ type = "svn") =>
          \A k \in 1..Len(last'.ops) :
             last'.ops[k].kind = "update" => Inside(query[idx].path, last'.ops[k].uri)]_vars

\* C27: under every analyzer the number of functions handed to
\* _get_mccabe_stats and written to the row is the number of per-function
\* values collected; hence a row whose McCabe fields are set has
\* nfunctions >= 1, and its mean and its median lie between its least and
\* its greatest value.
C27_UnitCountMatchesValues ==
    (last.outcome = "measured" /\ last.row.mccabe_sum # None) =>
       /\ last.row.nfunctions = Len(Units)
       /\ last.row.nfunctions >= 1
       /\ last.row.mccabe_min <= last.row.mccabe_mean
       /\ last.row.mccabe_mean <= last.row.mccabe_max
       /\ last.row.mccabe_min <= last.row.mccabe_median
       /\ last.row.mccabe_median <= last.row.mccabe_max

\* C27 for the analyzers that count the lines they take values from
\* (mccabe, pymetrics)
C27_UnitCountMatchesValuesOfLineTools ==
    (last.outcome = "measured" /\ last.row.lang \notin {"cpp", "java"})
       => C27_UnitCountMatchesValues

====
